---- MODULE Spec2Model ----
(***************************************************************************)
(* turnup: the update orchestration pipeline (src/actions/update.js) run   *)
(* against the GitHub adapter (src/adapters/github/adapter.js and its      *)
(* second revision).  One behaviour is one run of `update` or `updateAll`  *)
(* in one Node process: the main async function, the detached              *)
(* per-repository commitUpdates coroutines, and the adapter's responses.   *)
(***************************************************************************)
EXTENDS FiniteSets, Integers, Sequences, TLC

\* ------------------------------------------------------------------ bounds
\* Number of distinct repositories (fullNames) the hosting platform knows.
MaxRepos == 2
\* Longest `repos` option and longest list an owner query answers with.
MaxFetch == 2

Repos == 1..MaxRepos

\* ------------------------------------------------------------ value spaces
Undefined == "undefined"

\* Versions of the target package in a manifest's dependency map: no entry,
\* an older version, the target version.
Absent == "absent"
OldVersion == "4.17.0"
TargetVersion == "4.17.21"

\* No object: the manifest of the repository was never decoded.
NoObject == [dependencies |-> Undefined, devDependencies |-> Undefined]

\* An entity without dependencyRelationship (the field is undefined).
NoRelationship ==
  [type |-> Undefined, packageVersion |-> Undefined, currentVersion |-> Undefined]

\* createRepositoryEntity: a fresh entity carries identity only.
createRepositoryEntity(raw) ==
  [fullName |-> raw, packageDefinition |-> Undefined,
   dependencyRelationship |-> NoRelationship]

RECURSIVE SeqsUpTo(_, _)
SeqsUpTo(S, n) ==
  IF n = 0 THEN {<<>>}
  ELSE LET shorter == SeqsUpTo(S, n - 1)
       IN shorter \cup {Append(s, x) : s \in {t \in shorter : Len(t) = n - 1}, x \in S}

\* Lists of repository names / raw repositories of length <= MaxFetch.
RepoLists == SeqsUpTo(Repos, MaxFetch)

\* The two revisions of the GitHub adapter present in the repository.
AdapterRevisions == {"adapter.js", "part_000"}

VARIABLES
  mode,          \* "update" | "updateAll": the entry point that was called
  adapter,       \* which revision of the GitHub adapter was passed in
  options,       \* [continue, noLockfile, noPullRequest] of the options object
  pc,            \* position of the main async function (update / updateAll)
  fr,            \* frame of fetchRepositories (update.js): its locals
  bo,            \* frame of GitHub.fetchRepositoriesByOwner: queries and answers
  repositories,  \* the local `repositories` / `repositoryList` of update / updateAll
  contents,      \* per repository, the answer of api.getContents(.., 'package.json')
  decoded,       \* heap: per repository, the object JSON.parse made of its manifest
  offered,       \* [prompted, choices]: the choices handed to inquirer, if ever
  tasks,         \* the task list handed to async.series (entities, in order)
  next,          \* index of the next task async.series will invoke
  pl,            \* per task, the state of its commitUpdates coroutine
  calls,         \* per repository, adapter operations received so far
  fatalErr       \* the error handed to fatal(action, err), "none" if never called

vars == <<mode, adapter, options, pc, fr, bo, repositories, contents, decoded,
          offered, tasks, next, pl, calls, fatalErr>>

NoFrame == [repos |-> <<>>, owner |-> Undefined, repositories |-> <<>>,
            byName |-> <<>>, byOwner |-> <<>>, result |-> <<>>]
NoQuery == [queries |-> <<>>, answers |-> <<>>]
NoCalls == [createBranch |-> 0, commitPackageDefinition |-> 0, createPullRequest |-> 0]

OptionSets == [continue : BOOLEAN, noLockfile : BOOLEAN, noPullRequest : BOOLEAN]

\* The process is still running the event loop.
Alive == pc \notin {"fatal", "exit", "crashed"}

\* fatal(action, err): report the error and terminate the process.
fatal(err) ==
  /\ fatalErr' = err
  /\ pc' = "fatal"

Init ==
  /\ mode \in {"update", "updateAll"}
  /\ adapter \in AdapterRevisions
  /\ options \in OptionSets
  /\ pc = IF mode = "update" THEN "parsePackage" ELSE "fetchRepositories"
  /\ fr = NoFrame
  /\ bo = NoQuery
  /\ repositories = <<>>
  /\ contents = [r \in Repos |-> "unfetched"]
  /\ decoded = [r \in Repos |-> NoObject]
  /\ offered = [prompted |-> FALSE, choices |-> <<>>]
  /\ tasks = <<>>
  /\ next = 1
  /\ pl = <<>>
  /\ calls = [r \in Repos |-> NoCalls]
  /\ fatalErr = "none"

\* ------------------------------------------------------------- update.js
\* parsePackage with the throw reported but the run going on.
parsePackage_uncaught ==
  /\ pc = "parsePackage"
  /\ pc' = "fetchRepositories"
  /\ fatalErr' \in {fatalErr, "ParseError"}
  /\ UNCHANGED <<mode, adapter, options, fr, bo, repositories, contents, decoded,
                 offered, tasks, next, pl, calls>>

\* update, lines 141-142: parse the package specifier; a throw lands in catch.
parsePackage ==
  /\ pc = "parsePackage"
  /\ \/ /\ pc' = "fetchRepositories"
        /\ UNCHANGED fatalErr
     \/ fatal("ParseError")
  /\ UNCHANGED <<mode, adapter, options, fr, bo, repositories, contents, decoded,
                 offered, tasks, next, pl, calls>>

\* Where fetchRepositories goes once the by-name part is over (line 121).
ownerStep(owner) ==
  IF owner \notin {Undefined, ""} THEN "fetchRepositoriesByOwner" ELSE "reduce"

\* fetchRepositories, lines 114-118: destructure options, start the first fetch.
fetchRepositories_call ==
  /\ pc = "fetchRepositories"
  /\ \E repos \in RepoLists, owner \in {Undefined, "", "acme"} :
       /\ fr' = [NoFrame EXCEPT !.repos = repos, !.owner = owner]
       /\ pc' = IF Len(repos) > 0 THEN "adapter.fetchRepositories" ELSE ownerStep(owner)
  /\ UNCHANGED <<mode, adapter, options, bo, repositories, contents, decoded,
                 offered, tasks, next, pl, calls, fatalErr>>

\* GitHub.fetchRepositories, lines 28-31: Promise.all over api.getRepo, one entity
\* per name in the order of the names; any failing lookup rejects the call.
fetchRepositories(names) == [i \in 1..Len(names) |-> createRepositoryEntity(names[i])]

\* update.js line 118 resumes: concat the by-name entities, then line 121.
\* An adapter without fetchRepositoriesByOwner makes line 122 throw a TypeError.
fetchRepositories_byName ==
  /\ pc = "adapter.fetchRepositories"
  /\ \/ /\ fr' = [fr EXCEPT !.byName = fetchRepositories(fr.repos),
                             !.repositories = fr.repositories \o fetchRepositories(fr.repos)]
        /\ pc' = ownerStep(fr.owner)
        /\ UNCHANGED fatalErr
     \/ /\ fatal("ApiError")
        /\ UNCHANGED fr
  /\ UNCHANGED <<mode, adapter, options, bo, repositories, contents, decoded,
                 offered, tasks, next, pl, calls>>

\* What an owner query may answer: a list of raw repositories, or a value that
\* is no list (an error document).
Answers == [kind : {"list"}, items : RepoLists] \cup {[kind |-> "nonlist", items |-> <<>>]}

\* The fallback test without its emptiness half.
needsOrgQuery_nonlistOnly(answer) == answer.kind # "list"

\* part_000 line 40: !Array.isArray(ownerRepos) || ownerRepos.length === 0
needsOrgQuery(answer) == answer.kind # "list" \/ Len(answer.items) = 0

\* GitHub.fetchRepositoriesByOwner line 38: the user query is issued.
\* adapter.js has no such method: update.js line 122 throws, update's catch reports.
fetchRepositoriesByOwner_call ==
  /\ pc = "fetchRepositoriesByOwner"
  /\ IF adapter = "part_000"
     THEN /\ bo' = [queries |-> <<"getUserRepos">>, answers |-> <<>>]
          /\ pc' = "api.getUserRepos"
          /\ UNCHANGED fatalErr
     ELSE /\ fatal("TypeError")
          /\ UNCHANGED bo
  /\ UNCHANGED <<mode, adapter, options, fr, repositories, contents, decoded,
                 offered, tasks, next, pl, calls>>

\* update.js line 122 resumes with the entities of fetchRepositoriesByOwner.
fetchRepositories_byOwner(raws) ==
  /\ fr' = [fr EXCEPT !.byOwner = fetchRepositories(raws),
                      !.repositories = fr.repositories \o fetchRepositories(raws)]
  /\ pc' = "reduce"

\* part_000 lines 38-44: the user query answers; fall back to the org query or return.
fetchRepositoriesByOwner_user ==
  /\ pc = "api.getUserRepos"
  /\ \/ \E answer \in Answers :
          /\ IF needsOrgQuery(answer)
             THEN /\ bo' = [queries |-> Append(bo.queries, "getOrgRepos"),
                            answers |-> Append(bo.answers, answer)]
                  /\ pc' = "api.getOrgRepos"
                  /\ UNCHANGED fr
             ELSE /\ bo' = [bo EXCEPT !.answers = Append(bo.answers, answer)]
                  /\ fetchRepositories_byOwner(answer.items)
          /\ UNCHANGED fatalErr
     \/ /\ fatal("ApiError")
        /\ UNCHANGED <<fr, bo>>
  /\ UNCHANGED <<mode, adapter, options, repositories, contents, decoded,
                 offered, tasks, next, pl, calls>>

\* part_000 lines 41-44: the org query answers; mapping a non-list throws.
fetchRepositoriesByOwner_org ==
  /\ pc = "api.getOrgRepos"
  /\ \/ \E answer \in Answers :
          /\ bo' = [bo EXCEPT !.answers = Append(bo.answers, answer)]
          /\ IF answer.kind = "list"
             THEN /\ fetchRepositories_byOwner(answer.items)
                  /\ UNCHANGED fatalErr
             ELSE /\ fatal("TypeError")
                  /\ UNCHANGED fr
     \/ /\ fatal("ApiError")
        /\ UNCHANGED <<fr, bo>>
  /\ UNCHANGED <<mode, adapter, options, repositories, contents, decoded,
                 offered, tasks, next, pl, calls>>

\* A find that looks at the last accepted entity only.
find_lastOnly(reduction, fullName) ==
  reduction # <<>> /\ reduction[Len(reduction)].fullName = fullName

\* update.js line 126: reduction.find(repo => repo.fullName === value.fullName)
find(reduction, fullName) == \E k \in 1..Len(reduction) : reduction[k].fullName = fullName

\* update.js lines 125-130: reduce over the concatenation, left to right.
RECURSIVE reduce(_, _)
reduce(list, reduction) ==
  IF list = <<>> THEN reduction
  ELSE reduce(Tail(list),
              IF ~find(reduction, Head(list).fullName)
              THEN Append(reduction, Head(list))
              ELSE reduction)

\* fetchRepositories lines 125-130: the value the call returns.
fetchRepositories_reduce ==
  /\ pc = "reduce"
  /\ fr' = [fr EXCEPT !.result = reduce(fr.repositories, <<>>)]
  /\ pc' = "gathered"
  /\ UNCHANGED <<mode, adapter, options, bo, repositories, contents, decoded,
                 offered, tasks, next, pl, calls, fatalErr>>

\* The same step without the emptiness check.
update_gathered_unchecked ==
  /\ pc = "gathered"
  /\ repositories' = fr.result
  /\ fr' = NoFrame
  /\ bo' = NoQuery
  /\ pc' = "fetchPackageDefinitions"
  /\ UNCHANGED <<mode, adapter, options, contents, decoded,
                 offered, tasks, next, pl, calls, fatalErr>>

\* update lines 143-149 / updateAll lines 189-195: take the list, leave the frames,
\* and report NoRepositoriesFoundError when it is empty.
update_gathered ==
  /\ pc = "gathered"
  /\ repositories' = fr.result
  /\ fr' = NoFrame
  /\ bo' = NoQuery
  /\ IF Len(fr.result) = 0
     THEN fatal("NoRepositoriesFoundError")
     ELSE /\ pc' = "fetchPackageDefinitions"
          /\ UNCHANGED fatalErr
  /\ UNCHANGED <<mode, adapter, options, contents, decoded,
                 offered, tasks, next, pl, calls>>

\* ------------------------------------------------- manifests and selection
\* The manifests a repository may serve in a run. A repository that is out of
\* date uses the package as a production dependency when its name is odd and
\* as a development dependency when it is even. Bulk mode has no target
\* package, and nothing in it reads the dependency maps: one manifest stands
\* for all.
ManifestsServed(r) ==
  IF mode = "update"
  THEN { [dependencies |-> Absent, devDependencies |-> Absent],
         [dependencies |-> TargetVersion, devDependencies |-> Absent],
         IF r % 2 = 1
         THEN [dependencies |-> OldVersion, devDependencies |-> Absent]
         ELSE [dependencies |-> Absent, devDependencies |-> OldVersion] }
  ELSE {[dependencies |-> OldVersion, devDependencies |-> Absent]}

\* What api.getContents(fullName, 'package.json') may answer for repository r.
ContentAnswers(r) ==
  [status : {"ok"}, decoded : ManifestsServed(r)]
    \cup [status : {"404", "error"}, decoded : {NoObject}]

\* One answer per repository of the list.
ContentAnswerMaps(names) ==
  {answer \in [names -> UNION {ContentAnswers(r) : r \in names}] :
     \A r \in names : answer[r] \in ContentAnswers(r)}

Names(list) == {list[k].fullName : k \in 1..Len(list)}

\* adapter.js lines 37-44: every getPackageJson must succeed, otherwise
\* Promise.all rejects, whatever the status code.
fetchPackageDefinitions_adapter_js(list, answer) ==
  [failed |-> \E k \in 1..Len(list) : answer[list[k].fullName].status # "ok",
   list |-> [k \in 1..Len(list) |-> [list[k] EXCEPT !.packageDefinition = "attached"]]]

\* part_000 lines 47-62: a 404 gives the repository back as it came, any other
\* error rejects the Promise.all.
fetchPackageDefinitions_part_000(list, answer) ==
  [failed |-> \E k \in 1..Len(list) : answer[list[k].fullName].status = "error",
   list |-> [k \in 1..Len(list) |->
              IF answer[list[k].fullName].status = "404"
              THEN list[k]
              ELSE [list[k] EXCEPT !.packageDefinition = "attached"]]]

\* GitHub.fetchPackageDefinitions of the adapter revision in use.
fetchPackageDefinitions(list, answer) ==
  IF adapter = "adapter.js"
  THEN fetchPackageDefinitions_adapter_js(list, answer)
  ELSE fetchPackageDefinitions_part_000(list, answer)

\* A coroutine that is not running holds no locals.
ended(how) ==
  [pc |-> how, lockfileEntity |-> FALSE, updatedLockFile |-> FALSE, queued |-> <<>>,
   probe |-> "none", err |-> "none"]

\* A coroutine that ended with a throw: its promise is rejected with err.
threw(err) ==
  [ended("rejected") EXCEPT !.err = err]

\* The process ends: the coroutines still suspended never resume.
killed(coroutines) ==
  [k \in 1..Len(coroutines) |->
     IF coroutines[k].pc \in {"idle", "done", "rejected"}
     THEN coroutines[k] ELSE ended("killed")]

\* update lines 160 / 172-179, updateAll lines 199 / 211: with the working set
\* final, `update` returns on an empty set; otherwise async.series gets one task
\* per repository.
startSeries(list) ==
  IF mode = "update" /\ Len(list) = 0
  THEN /\ pc' = "done"
       /\ UNCHANGED <<tasks, pl>>
  ELSE /\ pc' = "series"
       /\ tasks' = list
       /\ pl' = [k \in 1..Len(list) |-> ended("idle")]

\* selectOrRun with the prompt left out.
selectOrRun_unprompted(list) ==
  startSeries(list)

\* update line 160 / updateAll line 199: prompt unless options.continue.
selectOrRun(list) ==
  IF ~options.continue
  THEN /\ pc' = "promptUserForRepos"
       /\ UNCHANGED <<tasks, pl>>
  ELSE startSeries(list)

\* update line 151 / updateAll line 197: the manifests are fetched.
update_fetchPackageDefinitions ==
  /\ pc = "fetchPackageDefinitions"
  /\ \E answer \in ContentAnswerMaps(Names(repositories)) :
       LET got == fetchPackageDefinitions(repositories, answer) IN
       /\ contents' = [r \in Repos |->
                        IF r \in Names(repositories) THEN answer[r].status ELSE contents[r]]
       /\ decoded' = [r \in Repos |->
                       IF r \in Names(repositories) THEN answer[r].decoded ELSE decoded[r]]
       /\ IF got.failed
          THEN /\ fatal("ApiError")
               /\ UNCHANGED <<repositories, tasks, pl>>
          ELSE /\ repositories' = got.list
               /\ UNCHANGED fatalErr
               /\ IF mode = "update"
                  THEN /\ pc' = "filter"
                       /\ UNCHANGED <<tasks, pl>>
                  ELSE selectOrRun(got.list)
  /\ UNCHANGED <<mode, adapter, options, fr, bo, offered, next, calls>>

\* packages.filter: the relationship of a manifest to the target package, by
\* the dependency map that declares another version of it.
relationshipOf(manifest) ==
  IF manifest.dependencies \notin {Absent, TargetVersion}
  THEN [type |-> "prod", packageVersion |-> TargetVersion,
        currentVersion |-> manifest.dependencies]
  ELSE IF manifest.devDependencies \notin {Absent, TargetVersion}
  THEN [type |-> "dev", packageVersion |-> TargetVersion,
        currentVersion |-> manifest.devDependencies]
  ELSE NoRelationship

\* packages.filter.repositoriesByDependencyUpgrade: keep, in order, the
\* repositories with a manifest that declares another version of the package,
\* and record the relationship.
repositoriesByDependencyUpgrade(list) ==
  LET outOfDate(e) == /\ e.packageDefinition # Undefined
                      /\ relationshipOf(decoded[e.fullName]) # NoRelationship
      kept == SelectSeq(list, outOfDate)
  IN [k \in 1..Len(kept) |->
        [kept[k] EXCEPT !.dependencyRelationship = relationshipOf(decoded[kept[k].fullName])]]

\* logging.notify(action, message, true): the notice that ends the run as an
\* informational exit.
notify_exit == pc' = "exit"

\* update_filter without the test for an empty classification.
update_filter_unchecked ==
  /\ pc = "filter"
  /\ LET kept == repositoriesByDependencyUpgrade(repositories) IN
       /\ repositories' = kept
       /\ selectOrRun(kept)
  /\ UNCHANGED <<mode, adapter, options, fr, bo, contents, decoded, offered,
                 next, calls, fatalErr>>

\* update lines 152-160: classify; an empty result is notified and the run ends.
update_filter ==
  /\ pc = "filter"
  /\ LET kept == repositoriesByDependencyUpgrade(repositories) IN
       /\ repositories' = kept
       /\ IF Len(kept) = 0
          THEN /\ notify_exit
               /\ UNCHANGED <<tasks, pl>>
          ELSE selectOrRun(kept)
  /\ UNCHANGED <<mode, adapter, options, fr, bo, contents, decoded, offered,
                 next, calls, fatalErr>>

\* update lines 161-168 / updateAll lines 200-207: the choices are built from
\* the working set and handed to inquirer. `update` reads
\* packageDefinition.decoded.name of every choice.
promptUserForRepos ==
  /\ pc = "promptUserForRepos"
  /\ IF mode = "update" /\ \E k \in 1..Len(repositories) :
                             repositories[k].packageDefinition = Undefined
     THEN /\ fatal("TypeError")
          /\ UNCHANGED offered
     ELSE /\ offered' = [prompted |-> TRUE, choices |-> repositories]
          /\ pc' = "inquirer.prompt"
          /\ UNCHANGED fatalErr
  /\ UNCHANGED <<mode, adapter, options, fr, bo, repositories, contents, decoded,
                 tasks, next, pl, calls>>

RECURSIVE pick(_, _, _)
\* The checked choices, in the order of the choices.
pick(choices, checked, k) ==
  IF k > Len(choices) THEN <<>>
  ELSE (IF k \in checked THEN <<choices[k]>> ELSE <<>>) \o pick(choices, checked, k + 1)

\* update lines 168-177 / updateAll lines 207-211: the operator answers.
inquirer_answers ==
  /\ pc = "inquirer.prompt"
  /\ \E checked \in SUBSET (1..Len(offered.choices)) :
       /\ repositories' = pick(offered.choices, checked, 1)
       /\ startSeries(pick(offered.choices, checked, 1))
  /\ UNCHANGED <<mode, adapter, options, fr, bo, contents, decoded, offered,
                 next, calls, fatalErr>>

\* ------------------------------------------------ async.series and pipelines
\* mutate with the two dependency maps swapped.
mutate_swapped(manifest, type) ==
  IF type = "dev"
  THEN [manifest EXCEPT !.dependencies = TargetVersion]
  ELSE [manifest EXCEPT !.devDependencies = TargetVersion]

\* updateRepository lines 63-67: the decoded manifest is written in place.
mutate(manifest, type) ==
  IF type = "dev"
  THEN [manifest EXCEPT !.devDependencies = TargetVersion]
  ELSE [manifest EXCEPT !.dependencies = TargetVersion]

\* The synchronous body of updateRepository (lines 57-69) / updateRepositoryAll
\* (lines 73-77) throws when it reads a field of undefined.
taskThrows(repo) ==
  \/ repo.packageDefinition = Undefined
  \/ mode = "update" /\ repo.dependencyRelationship = NoRelationship

\* async.series invokes the next task. The task is an async function: it runs
\* its synchronous body, calls commitUpdates without awaiting it (update.js
\* lines 69 and 77), and its promise fulfils at once, so the series moves on
\* while commitUpdates is suspended at `await formatPackage(packageDef)`.
\* A throw in the synchronous body rejects the task and reaches the catch.
series_task ==
  /\ pc = "series"
  /\ next <= Len(tasks)
  /\ LET repo == tasks[next] IN
       IF taskThrows(repo)
       THEN /\ fatal("TypeError")
            /\ pl' = killed(pl)
            /\ UNCHANGED <<decoded, next>>
       ELSE /\ decoded' = IF mode = "update"
                           THEN [decoded EXCEPT ![repo.fullName] =
                                   mutate(@, repo.dependencyRelationship.type)]
                           ELSE decoded
            /\ pl' = [pl EXCEPT ![next].pc = "formatPackage"]
            /\ next' = next + 1
            /\ UNCHANGED <<pc, fatalErr>>
  /\ UNCHANGED <<mode, adapter, options, fr, bo, repositories, contents, offered,
                 tasks, calls>>

\* async.series has run every task: the promise awaited at update.js line 179
\* / 211 fulfils and update / updateAll returns.
series_done ==
  /\ pc = "series"
  /\ next > Len(tasks)
  /\ pc' = "done"
  /\ UNCHANGED <<mode, adapter, options, fr, bo, repositories, contents, decoded,
                 offered, tasks, next, pl, calls, fatalErr>>

\* A rejection inside commitUpdates: nobody awaits the promise (update.js lines
\* 69 and 77), so the coroutine just ends rejected.
rejected(i) ==
  /\ pl' = [pl EXCEPT ![i] = threw("ApiError")]
  /\ UNCHANGED calls

\* A pipeline that forgets the branch and goes straight to the commit.
call_createBranch_skipped(i, updatedLockFile) ==
  /\ pl' = [pl EXCEPT ![i].pc = "commit.createContents",
                      ![i].queued = <<"package.json">>]
  /\ calls' = [calls EXCEPT ![tasks[i].fullName].commitPackageDefinition = @ + 1]

\* commitUpdates lines 95-96: adapter.createBranch is called.
call_createBranch(i, updatedLockFile) ==
  /\ pl' = [pl EXCEPT ![i].pc = "createBranch", ![i].updatedLockFile = updatedLockFile]
  /\ calls' = [calls EXCEPT ![tasks[i].fullName].createBranch = @ + 1]

\* commitUpdates lines 81-96: formatPackage settles.
commitUpdates_formatted(i) ==
  /\ Alive
  /\ pl[i].pc = "formatPackage"
  /\ \/ IF ~options.noLockfile
        THEN /\ pl' = [pl EXCEPT ![i].pc = "fetchLockfileDefinition"]
             /\ UNCHANGED calls
        ELSE call_createBranch(i, FALSE)
     \/ rejected(i)
  /\ UNCHANGED <<mode, adapter, options, pc, fr, bo, repositories, contents, decoded,
                 offered, tasks, next, fatalErr>>

\* commitUpdates lines 87-96: adapter.fetchLockfileDefinition settles.
commitUpdates_lockfileFetched(i) ==
  /\ Alive
  /\ pl[i].pc = "fetchLockfileDefinition"
  /\ \/ call_createBranch(i, FALSE)
     \/ /\ pl' = [pl EXCEPT ![i].pc = "lockfile.create", ![i].lockfileEntity = TRUE]
        /\ UNCHANGED calls
     \/ rejected(i)
  /\ UNCHANGED <<mode, adapter, options, pc, fr, bo, repositories, contents, decoded,
                 offered, tasks, next, fatalErr>>

\* commitUpdates lines 91-96: the lockfile generator settles.
commitUpdates_lockfileCreated(i) ==
  /\ Alive
  /\ pl[i].pc = "lockfile.create"
  /\ \/ call_createBranch(i, TRUE)
     \/ rejected(i)
  /\ UNCHANGED <<mode, adapter, options, pc, fr, bo, repositories, contents, decoded,
                 offered, tasks, next, fatalErr>>

\* GitHub.commitPackageDefinition lines 63-78 (adapter.js) / 80-95 (part_000):
\* reading rel.type of an undefined relationship throws; otherwise the manifest
\* write is queued and, with a lockfile, the remote lockfile is probed.
\* commitUpdates passes updatedLockFile here (line 103) and never reads it again.
call_commitPackageDefinition(i) ==
  /\ calls' = [calls EXCEPT ![tasks[i].fullName].commitPackageDefinition = @ + 1]
  /\ pl' = IF tasks[i].dependencyRelationship = NoRelationship
            THEN [pl EXCEPT ![i] = threw("TypeError")]
            ELSE IF pl[i].updatedLockFile
            THEN [pl EXCEPT ![i].pc = "commit.getContents",
                            ![i].queued = <<"package.json">>,
                            ![i].updatedLockFile = FALSE]
            ELSE [pl EXCEPT ![i].pc = "commit.createContents",
                            ![i].queued = <<"package.json">>]

\* commitUpdates lines 96-105: adapter.createBranch settles.
commitUpdates_branchCreated(i) ==
  /\ Alive
  /\ pl[i].pc = "createBranch"
  /\ \/ call_commitPackageDefinition(i)
     \/ rejected(i)
  /\ UNCHANGED <<mode, adapter, options, pc, fr, bo, repositories, contents, decoded,
                 offered, tasks, next, fatalErr>>

\* commitPackageDefinition_probed with the lockfile write queued ahead of the
\* manifest write.
commitPackageDefinition_probed_lockfileFirst(i) ==
  /\ Alive
  /\ pl[i].pc = "commit.getContents"
  /\ \/ pl' = [pl EXCEPT ![i].pc = "commit.createContents",
                          ![i].queued = <<"package-lock.json">> \o @,
                          ![i].probe = "found"]
     \/ pl' = [pl EXCEPT ![i].pc = "commit.createContents", ![i].probe = "404"]
     \/ pl' = [pl EXCEPT ![i] = [threw("ApiError") EXCEPT !.probe = "error"]]
  /\ UNCHANGED <<mode, adapter, options, pc, fr, bo, repositories, contents, decoded,
                 offered, tasks, next, calls, fatalErr>>

\* commitPackageDefinition_probed with a 404 rethrown like any other error.
commitPackageDefinition_probed_strict(i) ==
  /\ Alive
  /\ pl[i].pc = "commit.getContents"
  /\ \/ pl' = [pl EXCEPT ![i].pc = "commit.createContents",
                          ![i].queued = Append(@, "package-lock.json"),
                          ![i].probe = "found"]
     \/ pl' = [pl EXCEPT ![i] = [threw("ApiError") EXCEPT !.probe = "404"]]
     \/ pl' = [pl EXCEPT ![i] = [threw("ApiError") EXCEPT !.probe = "error"]]
  /\ UNCHANGED <<mode, adapter, options, pc, fr, bo, repositories, contents, decoded,
                 offered, tasks, next, calls, fatalErr>>

\* GitHub.commitPackageDefinition lines 76-95 (adapter.js) / 93-111 (part_000):
\* the probe for the remote package-lock.json settles: found (the lockfile
\* write is queued), 404 (swallowed), or another error (rethrown).
commitPackageDefinition_probed(i) ==
  /\ Alive
  /\ pl[i].pc = "commit.getContents"
  /\ \/ pl' = [pl EXCEPT ![i].pc = "commit.createContents",
                          ![i].queued = Append(@, "package-lock.json"),
                          ![i].probe = "found"]
     \/ pl' = [pl EXCEPT ![i].pc = "commit.createContents", ![i].probe = "404"]
     \/ pl' = [pl EXCEPT ![i] = [threw("ApiError") EXCEPT !.probe = "error"]]
  /\ UNCHANGED <<mode, adapter, options, pc, fr, bo, repositories, contents, decoded,
                 offered, tasks, next, calls, fatalErr>>

\* call_createPullRequest with noPullRequest ignored.
call_createPullRequest_always(i) ==
  /\ calls' = [calls EXCEPT ![tasks[i].fullName].createPullRequest = @ + 1]
  /\ pl' = [pl EXCEPT ![i].pc = "createPullRequest", ![i].queued = <<>>,
                      ![i].probe = "none"]

\* commitUpdates lines 107-110: commitPackageDefinition returned.
call_createPullRequest(i) ==
  IF ~options.noPullRequest
  THEN /\ calls' = [calls EXCEPT ![tasks[i].fullName].createPullRequest = @ + 1]
       /\ pl' = IF tasks[i].dependencyRelationship = NoRelationship
                 THEN [pl EXCEPT ![i] = threw("TypeError")]
                 ELSE [pl EXCEPT ![i].pc = "createPullRequest", ![i].queued = <<>>,
                                 ![i].probe = "none"]
  ELSE /\ pl' = [pl EXCEPT ![i] = ended("done")]
       /\ UNCHANGED calls

\* GitHub.commitPackageDefinition line 96 (adapter.js) / 113 (part_000):
\* async.series over the queued writes; the head write settles.
commitPackageDefinition_written(i) ==
  /\ Alive
  /\ pl[i].pc = "commit.createContents"
  /\ \/ IF Len(pl[i].queued) > 1
        THEN /\ pl' = [pl EXCEPT ![i].queued = Tail(@)]
             /\ UNCHANGED calls
        ELSE call_createPullRequest(i)
     \/ rejected(i)
  /\ UNCHANGED <<mode, adapter, options, pc, fr, bo, repositories, contents, decoded,
                 offered, tasks, next, fatalErr>>

\* commitUpdates line 109: adapter.createPullRequest settles.
commitUpdates_pullRequested(i) ==
  /\ Alive
  /\ pl[i].pc = "createPullRequest"
  /\ \/ pl' = [pl EXCEPT ![i] = ended("done")]
     \/ pl' = [pl EXCEPT ![i] = threw("ApiError")]
  /\ UNCHANGED <<mode, adapter, options, pc, fr, bo, repositories, contents, decoded,
                 offered, tasks, next, calls, fatalErr>>

\* Node's default for a promise rejected with no handler (since Node 15): the
\* process is terminated; older versions only warn, and the run goes on.
unhandledRejection ==
  /\ Alive
  /\ \E i \in 1..Len(pl) : pl[i].pc = "rejected"
  /\ pc' = "crashed"
  /\ pl' = killed(pl)
  /\ UNCHANGED <<mode, adapter, options, fr, bo, repositories, contents, decoded,
                 offered, tasks, next, calls, fatalErr>>

Next ==
  \/ parsePackage
  \/ fetchRepositories_call
  \/ fetchRepositories_byName
  \/ fetchRepositoriesByOwner_call
  \/ fetchRepositoriesByOwner_user
  \/ fetchRepositoriesByOwner_org
  \/ fetchRepositories_reduce
  \/ update_gathered
  \/ update_fetchPackageDefinitions
  \/ update_filter
  \/ promptUserForRepos
  \/ inquirer_answers
  \/ series_task
  \/ series_done
  \/ \E i \in 1..Len(pl) :
       \/ commitUpdates_formatted(i)
       \/ commitUpdates_lockfileFetched(i)
       \/ commitUpdates_lockfileCreated(i)
       \/ commitUpdates_branchCreated(i)
       \/ commitPackageDefinition_probed(i)
       \/ commitPackageDefinition_written(i)
       \/ commitUpdates_pullRequested(i)
  \/ unhandledRejection

Spec == Init /\ [][Next]_vars

\* ==================================================================== claims
\* Positions at which commitUpdates has an adapter operation (or the lockfile
\* generator) in flight.
InAdapter ==
  {"fetchLockfileDefinition", "lockfile.create", "createBranch",
   "commit.getContents", "commit.createContents", "createPullRequest"}

Finished == {"done", "rejected"}

\* C1: pipelines never overlap: while a later repository has an adapter
\* operation in flight, the pipeline of every earlier repository has finished.
C1_NoOverlap ==
  \A i, j \in 1..Len(pl) :
    (i < j /\ pl[j].pc \in InAdapter) => pl[i].pc \in Finished

\* C2: abort on first error: once the pipeline at position k has failed, no
\* pipeline at a later position has been started.
C2_AbortOnFirstError ==
  \A k, j \in 1..Len(pl) :
    (k < j /\ pl[k].pc = "rejected") => pl[j].pc = "idle"

\* The run is over: the main function has ended and no coroutine is suspended.
Quiescent ==
  /\ pc \in {"done", "fatal", "exit", "crashed"}
  /\ \A k \in 1..Len(pl) : pl[k].pc \in {"idle", "done", "rejected", "killed"}

\* C3: when the run is over, an error thrown inside a pipeline has been
\* reported through fatal.
C3_PipelineErrorIsFatal ==
  (Quiescent /\ \E k \in 1..Len(pl) : pl[k].pc = "rejected") => fatalErr # "none"

ExpectedCalls ==
  [createBranch |-> 1, commitPackageDefinition |-> 1,
   createPullRequest |-> IF options.noPullRequest THEN 0 ELSE 1]

\* C4: when `update` has returned and no call has failed, every selected
\* repository got one createBranch, one commitPackageDefinition and (unless
\* noPullRequest) one createPullRequest, and no other repository got any.
C4_OncePerSelected ==
  (mode = "update" /\ pc = "done" /\ \A k \in 1..Len(pl) : pl[k].pc # "rejected")
    => /\ \A k \in 1..Len(tasks) : calls[tasks[k].fullName] = ExpectedCalls
       /\ \A r \in Repos \ Names(tasks) : calls[r] = NoCalls

\* C5: within one pipeline the steps come in order: nothing is called before
\* formatting and the lockfile step are over, the commit is called only after
\* createBranch returned, the pull request only after the commit returned; a
\* repository has no pull request without a commit, no commit without a
\* branch, and each at most once.
C5_StepOrder ==
  \A k \in 1..Len(pl) :
    LET c == calls[tasks[k].fullName] IN
    /\ c.createPullRequest <= c.commitPackageDefinition
    /\ c.commitPackageDefinition <= c.createBranch
    /\ c.createBranch <= 1
    /\ pl[k].pc \in {"idle", "formatPackage", "fetchLockfileDefinition", "lockfile.create"}
         => c = NoCalls
    /\ pl[k].pc = "createBranch"
         => c = [NoCalls EXCEPT !.createBranch = 1]
    /\ pl[k].pc \in {"commit.getContents", "commit.createContents"}
         => c = [NoCalls EXCEPT !.createBranch = 1, !.commitPackageDefinition = 1]
    /\ pl[k].pc = "createPullRequest"
         => c = [createBranch |-> 1, commitPackageDefinition |-> 1, createPullRequest |-> 1]
    /\ pl[k].pc = "fetchLockfileDefinition" => ~options.noLockfile
    /\ pl[k].pc = "done" => c = ExpectedCalls

\* A pipeline went through the lockfile step, the branch and the commit, and
\* its pull request is in flight.
C5_Witness ==
  \E k \in 1..Len(pl) : pl[k].pc = "createPullRequest" /\ pl[k].lockfileEntity

\* Indexes of the first occurrence of every fullName in a list.
FirstIndexes(list) ==
  {k \in 1..Len(list) : \A m \in 1..(k - 1) : list[m].fullName # list[k].fullName}

\* C6: the gathered list has no two entities with the same fullName and is the
\* first-occurrence subsequence of (by name) followed by (by owner).
C6_Deduplicated ==
  pc = "gathered" =>
    LET all == fr.byName \o fr.byOwner
        first == FirstIndexes(all)
    IN /\ \A a, b \in 1..Len(fr.result) :
            a # b => fr.result[a].fullName # fr.result[b].fullName
       /\ Len(fr.result) = Cardinality(first)
       /\ \A a \in 1..Len(fr.result) :
            \E k \in first : /\ Cardinality({m \in first : m < k}) = a - 1
                              /\ fr.result[a] = all[k]

\* Both sources answered, they overlap, and the owner brought a new repository.
C6_Witness ==
  /\ pc = "gathered"
  /\ Len(fr.byName) > 0
  /\ Len(fr.byOwner) > 0
  /\ Len(fr.result) < Len(fr.byName) + Len(fr.byOwner)
  /\ Names(fr.byOwner) \ Names(fr.byName) # {}

\* C7: the user query comes first; the organization query is issued exactly
\* when the user query answered an empty list or no list, and then the
\* entities returned are those of the organization query.
C7_UserThenOrg ==
  /\ bo.queries \in {<<>>, <<"getUserRepos">>, <<"getUserRepos", "getOrgRepos">>}
  /\ Len(bo.answers) >= 1 =>
       (Len(bo.queries) = 2 <=>
          (bo.answers[1].kind = "nonlist" \/ bo.answers[1].items = <<>>))
  /\ (pc \in {"reduce", "gathered"} /\ Len(bo.answers) >= 1) =>
       LET from == bo.answers[Len(bo.queries)].items IN
       /\ Len(bo.answers) = Len(bo.queries)
       /\ Len(fr.byOwner) = Len(from)
       /\ \A k \in 1..Len(from) : fr.byOwner[k].fullName = from[k]

\* The user query came back empty and the organization's repositories were returned.
C7_Witness ==
  /\ pc = "gathered"
  /\ Len(bo.queries) = 2
  /\ bo.answers[1].kind = "list"
  /\ Len(fr.byOwner) > 0

\* C8: an empty gathering is reported as NoRepositoriesFoundError and the run
\* ends there: no manifest was fetched, nobody was prompted, no pipeline ran;
\* and the manifest fetch is never reached with an empty list.
C8_EmptyGatheringIsFatal ==
  /\ pc = "fetchPackageDefinitions" => Len(repositories) > 0
  /\ fatalErr = "NoRepositoriesFoundError" =>
       /\ pc = "fatal"
       /\ repositories = <<>>
       /\ \A r \in Repos : contents[r] = "unfetched" /\ calls[r] = NoCalls
       /\ ~offered.prompted
       /\ tasks = <<>> /\ pl = <<>>

\* The gathering came back empty and was reported.
C8_Witness == pc = "fatal" /\ fatalErr = "NoRepositoriesFoundError"

\* C9: fetchPackageDefinitions fails exactly when some manifest fetch ends in
\* an error other than 404; otherwise it returns the repositories in order, a
\* repository with a 404 unchanged and every other with packageDefinition.
C9_MissingManifestTolerated ==
  [][pc = "fetchPackageDefinitions" =>
       /\ pc' = "fatal" <=>
            \E k \in 1..Len(repositories) : contents'[repositories[k].fullName] = "error"
       /\ pc' # "fatal" =>
            /\ Len(repositories') = Len(repositories)
            /\ \A k \in 1..Len(repositories) :
                 repositories'[k] =
                   IF contents'[repositories[k].fullName] = "404"
                   THEN repositories[k]
                   ELSE [repositories[k] EXCEPT !.packageDefinition = "attached"]]_vars

\* C10: in updateAll a repository without a manifest is never offered to the
\* selector, never becomes a pipeline task, and never makes the run fail (no
\* TypeError from reading its packageDefinition is reported as fatal).
C10_NoManifestDropped ==
  mode = "updateAll" =>
    /\ \A k \in 1..Len(offered.choices) : offered.choices[k].packageDefinition # Undefined
    /\ \A k \in 1..Len(tasks) : tasks[k].packageDefinition # Undefined
    /\ (\E r \in Repos : contents[r] = "404") => fatalErr # "TypeError"

\* C11: in `update`, an empty classification ends the run as an informational
\* exit: nothing is reported through fatal, the selector is never invoked
\* (whatever options.continue is), no pipeline exists and no mutating adapter
\* operation was called; so the selector is never handed an empty list and the
\* series never gets an empty task list.
C11_EmptyClassificationExits ==
  mode = "update" =>
    /\ pc = "exit" =>
         /\ repositories = <<>>
         /\ fatalErr = "none"
         /\ ~offered.prompted
         /\ tasks = <<>> /\ pl = <<>>
         /\ \A r \in Repos : calls[r] = NoCalls
    /\ pc = "promptUserForRepos" => repositories # <<>>
    /\ offered.prompted => offered.choices # <<>>
    /\ pc = "series" => tasks # <<>>

\* Manifests were fetched, the classification kept none, and the run exited.
C11_Witness ==
  pc = "exit" /\ \E r \in Repos : contents[r] = "ok"

\* t is a subsequence of c: the elements of t, in order, at increasing
\* positions of c.
IsSubseq(t, c) ==
  \E f \in [1..Len(t) -> 1..Len(c)] :
    /\ \A a, b \in 1..Len(t) : a < b => f[a] < f[b]
    /\ \A a \in 1..Len(t) : t[a] = c[f[a]]

\* C12: the selection gates every mutation. Without options.continue nothing
\* is started or called before the selector has answered, the tasks are a
\* subsequence of the offered choices, and only tasks get adapter calls (none
\* on an empty choice). With options.continue the selector is never invoked
\* and the tasks are the whole working list: in `update` every fetched
\* manifest still declaring another version belongs to a task.
C12_SelectionGates ==
  /\ \A r \in Repos \ Names(tasks) : calls[r] = NoCalls
  /\ pl # <<>> => tasks = repositories
  /\ ~options.continue =>
       /\ (pl # <<>> \/ \E r \in Repos : calls[r] # NoCalls)
            => offered.prompted /\ pc \notin {"promptUserForRepos", "inquirer.prompt"}
       /\ IsSubseq(tasks, offered.choices)
  /\ options.continue =>
       /\ ~offered.prompted
       /\ pc \notin {"promptUserForRepos", "inquirer.prompt"}
       /\ (mode = "update" /\ pl # <<>>) =>
            \A r \in Repos :
              (contents[r] = "ok" /\ relationshipOf(decoded[r]) # NoRelationship)
                => r \in Names(tasks)
       /\ (mode = "updateAll" /\ (pl # <<>> \/ pc = "series")) =>
            Names(tasks) = {r \in Repos : contents[r] # "unfetched"}

\* The operator chose some but not all of the offered repositories, and a
\* chosen one has its branch.
C12_Witness ==
  /\ ~options.continue
  /\ offered.prompted
  /\ 0 < Len(tasks) /\ Len(tasks) < Len(offered.choices)
  /\ \E r \in Names(tasks) : calls[r].createBranch = 1

\* C13: commitPackageDefinition gets lockfile content (and so probes the
\* remote lockfile) exactly when noLockfile is unset and the lockfile fetch
\* returned a lockfile; with noLockfile neither the fetch nor the generator is
\* invoked; the generator runs only on a fetched lockfile; and a pipeline with
\* no remote lockfile goes on to createBranch and a manifest-only commit that
\* does not raise.
C13_LockfileIffFetched ==
  [][\A k \in 1..Len(pl) :
       /\ pl'[k].pc = "commit.getContents"
            => ~options.noLockfile /\ pl'[k].lockfileEntity
       /\ (pl[k].pc = "createBranch"
             /\ pl'[k].pc \in {"commit.getContents", "commit.createContents"})
            => (pl'[k].pc = "commit.getContents"
                  <=> (~options.noLockfile /\ pl[k].lockfileEntity))
       /\ options.noLockfile
            => pl'[k].pc \notin {"fetchLockfileDefinition", "lockfile.create"}
       /\ pl'[k].pc = "lockfile.create" => pl'[k].lockfileEntity
       /\ (pl[k].pc = "fetchLockfileDefinition" /\ pl'[k].pc = "createBranch")
            => ~pl'[k].lockfileEntity /\ ~pl'[k].updatedLockFile
       /\ (~options.noLockfile /\ pl[k].pc = "createBranch" /\ ~pl[k].lockfileEntity)
            => pl'[k].err # "TypeError"]_vars

\* The step of pipeline k in which commitPackageDefinition returns to
\* commitUpdates: its last queued write succeeds.
CommitReturned(k) ==
  /\ pl[k].pc = "commit.createContents"
  /\ Len(pl[k].queued) = 1
  /\ \/ pl'[k].pc \in {"createPullRequest", "done"}
     \/ pl'[k].pc = "rejected" /\ pl'[k].err = "TypeError"

\* C14: createPullRequest is called for a repository exactly in the step in
\* which its commit returns successfully and noPullRequest is unset: never
\* with noPullRequest, never after a failed branch or commit, at most once.
C14_PullRequestIffCommitted ==
  [][\A k \in 1..Len(pl) :
       LET r == tasks[k].fullName IN
       /\ calls'[r].createPullRequest = calls[r].createPullRequest + 1
            <=> (~options.noPullRequest /\ CommitReturned(k))
       /\ calls'[r].createPullRequest
            \in {calls[r].createPullRequest, calls[r].createPullRequest + 1}
       /\ options.noPullRequest => calls'[r].createPullRequest = 0]_vars

\* A pipeline committed, opened its pull request and finished.
C14_Witness ==
  \E k \in 1..Len(pl) :
    pl[k].pc = "done" /\ calls[tasks[k].fullName].createPullRequest = 1

\* C15: when the package specifier fails to parse, `update` has reported a
\* fatal and no adapter network operation is ever issued: nothing gathered,
\* no manifest fetched, nothing offered, no pipeline, no mutating call.
C15_ParseFailureIsFatal ==
  fatalErr = "ParseError" =>
    /\ mode = "update"
    /\ pc = "fatal"
    /\ fr = NoFrame /\ bo = NoQuery
    /\ repositories = <<>>
    /\ \A r \in Repos : contents[r] = "unfetched" /\ calls[r] = NoCalls
    /\ ~offered.prompted
    /\ tasks = <<>> /\ pl = <<>>

\* The specifier did not parse.
C15_Witness ==
  pc = "fatal" /\ fatalErr = "ParseError"

\* C16: in updateAll no pipeline that created its branch ends on a TypeError
\* of the adapter for lack of a dependencyRelationship; the branch is never
\* left behind without its commit.
C16_BulkCompletes ==
  mode = "updateAll" =>
    \A k \in 1..Len(pl) :
      ~(/\ pl[k].pc = "rejected"
        /\ pl[k].err = "TypeError"
        /\ calls[tasks[k].fullName].createBranch = 1)

\* The file whose write pipeline p has in flight.
Writing(p) ==
  IF p.pc = "commit.createContents" THEN Head(p.queued) ELSE "none"

\* C17: within one commitPackageDefinition call the writes go one at a time,
\* manifest first: the first write in flight is the manifest's, it starts only
\* at the start of the call (once), the lockfile write starts only in the step
\* in which the manifest write settled, the manifest is not written again
\* after it, and a failed pipeline does nothing more.
C17_WritesInSequence ==
  [][\A k \in 1..Len(pl) :
       LET now == Writing(pl[k])
           then == Writing(pl'[k])
       IN /\ (pl'[k].pc = "commit.createContents" /\ pl[k].pc # "commit.createContents")
               => then = "package.json"
          /\ (then = "package.json" /\ now # "package.json")
               => pl[k].pc \in {"createBranch", "commit.getContents"}
          /\ (then = "package-lock.json" /\ now # "package-lock.json")
               => now = "package.json"
          /\ now = "package-lock.json" => then \in {"package-lock.json", "none"}
          /\ pl[k].pc = "rejected" => pl'[k] = pl[k]]_vars

\* The manifest write succeeded and the lockfile write is in flight.
C17_Witness ==
  \E k \in 1..Len(pl) :
    pl[k].pc = "commit.createContents" /\ pl[k].queued = <<"package-lock.json">>

\* C18: the probe decides what a commit with lockfile content writes. After a
\* 404 the call goes on with the manifest write alone and has not raised;
\* after any other error the call is rejected straight from the probe, with
\* no write queued or started; only a found lockfile queues the lockfile write.
C18_ProbeDecides ==
  [][\A k \in 1..Len(pl) :
       /\ pl'[k].probe = "404"
            => /\ pl'[k].pc = "commit.createContents"
               /\ pl'[k].queued = <<"package.json">>
               /\ pl'[k].err = "none"
       /\ pl'[k].probe = "error"
            => /\ pl'[k].pc = "rejected"
               /\ pl'[k].err = "ApiError"
               /\ pl[k].pc \in {"commit.getContents", "rejected"}
       /\ pl'[k].probe = "found"
            => /\ pl'[k].pc = "commit.createContents"
               /\ pl'[k].queued \in {<<"package.json", "package-lock.json">>,
                                     <<"package-lock.json">>}
       /\ Writing(pl'[k]) = "package-lock.json" => pl'[k].probe = "found"
       /\ pl'[k].pc = "commit.getContents"
            => pl'[k].probe = "none" /\ pl'[k].queued = <<"package.json">>]_vars

\* One commit goes on after a 404 of the probe while another was rejected by
\* a probe error.
C18_Witness ==
  \E k, j \in 1..Len(pl) : pl[k].probe = "404" /\ pl[j].probe = "error"

\* C19: no pipeline stage changes an entity it was handed: a decoded manifest,
\* once fetched, keeps its value.
C19_NoInPlaceMutation ==
  [][\A r \in Repos : decoded[r] # NoObject => decoded'[r] = decoded[r]]_vars

\* C20: when a task starts, in single-package mode the manifest that goes to
\* formatting equals the fetched one except for one entry, the target package
\* in devDependencies when the relationship is "dev" and in dependencies
\* otherwise, set to packageVersion; in bulk mode it is the fetched manifest.
\* No other step changes a fetched manifest.
C20_OneEntryDiffers ==
  [][IF pc = "series" /\ next' = next + 1
     THEN LET repo == tasks[next]
              r == repo.fullName
              rel == repo.dependencyRelationship
          IN /\ \A q \in Repos \ {r} : decoded'[q] = decoded[q]
             /\ mode = "updateAll" => decoded'[r] = decoded[r]
             /\ mode = "update" =>
                  IF rel.type = "dev"
                  THEN /\ decoded'[r].devDependencies = rel.packageVersion
                       /\ decoded'[r].dependencies = decoded[r].dependencies
                  ELSE /\ decoded'[r].dependencies = rel.packageVersion
                       /\ decoded'[r].devDependencies = decoded[r].devDependencies
     ELSE \A r \in Repos : decoded[r] # NoObject => decoded'[r] = decoded[r]]_vars

\* The task of a repository with a "dev" relationship started: its manifest
\* carries the new version in devDependencies and nothing in dependencies.
C20_Witness ==
  \E k \in 1..Len(pl) :
    /\ mode = "update"
    /\ pl[k].pc = "formatPackage"
    /\ tasks[k].dependencyRelationship.type = "dev"
    /\ decoded[tasks[k].fullName].devDependencies = TargetVersion
    /\ decoded[tasks[k].fullName].dependencies = Absent

====
